---- MODULE Spec2Model ----
(***************************************************************************)
(* Sensor platform of the Omada integration                                *)
(* (custom_components/omada/sensor.py).                                    *)
(*                                                                         *)
(* The controller object holds the already polled state: three mappings    *)
(* from MAC address to record (api.known_clients, api.clients,             *)
(* api.devices), the options and the connection-health flag.  A sensor     *)
(* entity binds one descriptor (table, key) to one MAC, reads its value    *)
(* through the descriptor's value_fn and caches it in native_value.        *)
(*                                                                         *)
(* Python values are modelled as records [t, n, d]:                        *)
(*   t = "num"       the number n/d in lowest terms (int and float compare *)
(*                   by numeric value in Python, 0 == 0.0)                 *)
(*   t = "datetime"  the instant n (seconds on the model's clock)          *)
(*   t = "bool"      n = 1 for True, 0 for False                           *)
(*   t = "none"      None                                                  *)
(*   t = "KeyError"  the lookup mapping[mac] raised instead of returning   *)
(***************************************************************************)
EXTENDS Integers, Sequences, FiniteSets, TLC

VARIABLES controller, now, entity, last_shown, lastOp, last_read, subscribed,
          calls, setup_options, probe

vars ==
    <<controller, now, entity, last_shown, lastOp, last_read, subscribed,
      calls, setup_options, probe>>

(***************************************************************************)
(* Bounds of the model.                                                    *)
(***************************************************************************)
\* records of a mapping are drawn from the samples 0..MaxSample
MaxSample == 1
\* the clock dt_util.now() runs over 0..MaxNow
MaxNow == 1

MACS == {"m1", "m2"}

(***************************************************************************)
(* Sensor keys (sensor.py lines 25-44).                                    *)
(***************************************************************************)
DOWNLOAD_SENSOR == "downloaded"
UPLOAD_SENSOR == "uploaded"
UPTIME_SENSOR == "uptime"
RX_SENSOR == "rx"
TX_SENSOR == "tx"
CPU_USAGE_SENSOR == "cpu_usage"
MEMORY_USAGE_SENSOR == "memory_usage"
CLIENTS_SENSOR == "clients"
CLIENTS_2G_SENSOR == "2ghz_clients"
CLIENTS_5G_SENSOR == "5ghz_clients"
CLIENTS_6G_SENSOR == "6ghz_clients"
TX_UTILIZATION_2G_SENSOR == "2ghz_tx_utilization"
TX_UTILIZATION_5G_SENSOR == "5ghz_tx_utilization"
TX_UTILIZATION_6G_SENSOR == "6ghz_tx_utilization"
RX_UTILIZATION_2G_SENSOR == "2ghz_rx_utilization"
RX_UTILIZATION_5G_SENSOR == "5ghz_rx_utilization"
RX_UTILIZATION_6G_SENSOR == "6ghz_rx_utilization"
INTER_UTILIZATION_2G_SENSOR == "2ghz_interference_utilization"
INTER_UTILIZATION_5G_SENSOR == "5ghz_interference_utilization"
INTER_UTILIZATION_6G_SENSOR == "6ghz_interference_utilization"

(***************************************************************************)
(* Python values.                                                          *)
(***************************************************************************)
RECURSIVE GCD(_, _)
GCD(a, b) == IF b = 0 THEN a ELSE GCD(b, a % b)

\* an int: the number n
PyInt(n) == [t |-> "num", n |-> n, d |-> 1]

\* true division a / b of two ints (b > 0): the number a/b, in lowest terms
\* (two counters below 2^52 give equal floats only when they are equal, so
\* comparing the exact quotients is comparing the floats)
TrueDiv(a, b) ==
    LET g == GCD(a, b)
    IN  [t |-> "num", n |-> a \div g, d |-> b \div g]

\* now - timedelta(seconds=s): the instant s seconds before the clock reading
Datetime(s) == [t |-> "datetime", n |-> s, d |-> 1]

PyBool(b) == [t |-> "bool", n |-> IF b THEN 1 ELSE 0, d |-> 1]

PyNone == [t |-> "none", n |-> 0, d |-> 1]

KeyError == [t |-> "KeyError", n |-> 0, d |-> 1]

Raised(v) == v.t = "KeyError"

(***************************************************************************)
(* Records of the controller's mappings.  Sample i of a mapping gives      *)
(* every field a value of its own, so that reading the wrong field, or     *)
(* the wrong record, shows in the value.                                   *)
(***************************************************************************)
Samples == 0..MaxSample

Bytes(i, k) == (5 * i + k) * 500000

Percent(i, k) == (37 * i + 7 * k) % 101

KnownClientSample(i) ==
    [download |-> Bytes(i, 1), upload |-> Bytes(i, 2)]

ClientSample(i) ==
    [rx_rate |-> Bytes(i, 0), tx_rate |-> Bytes(i, 3), uptime |-> i]

RadioSets == SUBSET {2, 5, 6}

DeviceSample(i, radios) ==
    [download |-> Bytes(i, 1), upload |-> Bytes(i, 2),
     rx_rate |-> Bytes(i, 3), tx_rate |-> Bytes(i, 4),
     cpu |-> Percent(i, 1), memory |-> Percent(i, 2), uptime |-> i + 1,
     clients |-> 10 * i + 6,
     clients_2ghz |-> 10 * i + 1,
     clients_5ghz |-> 10 * i + 2,
     clients_6ghz |-> 10 * i + 3,
     tx_utilization_2ghz |-> Percent(i, 3),
     tx_utilization_5ghz |-> Percent(i, 4),
     tx_utilization_6ghz |-> Percent(i, 5),
     rx_utilization_2ghz |-> Percent(i, 6),
     rx_utilization_5ghz |-> Percent(i, 7),
     rx_utilization_6ghz |-> Percent(i, 8),
     interference_utilization_2ghz |-> Percent(i, 9),
     interference_utilization_5ghz |-> Percent(i, 10),
     interference_utilization_6ghz |-> Percent(i, 11),
     radio_enabled_2ghz |-> 2 \in radios,
     radio_enabled_5ghz |-> 5 \in radios,
     radio_enabled_6ghz |-> 6 \in radios]

\* the mappings from a subset of the MACs to records of the set R
Mappings(R) == UNION {[D -> R] : D \in SUBSET MACS}

KnownClientRecords == {KnownClientSample(i) : i \in Samples}

ClientRecords == {ClientSample(i) : i \in Samples}

DeviceRecords(radioSets) ==
    {DeviceSample(i, r) : i \in Samples, r \in radioSets}

(***************************************************************************)
(* Value accessors (sensor.py lines 49-205).  mapping[mac] raises KeyError *)
(* when mac is not a key of the mapping.                                   *)
(***************************************************************************)
client_download_value_fn(c, mac) ==
    IF mac \in DOMAIN c.api.known_clients
    THEN TrueDiv(c.api.known_clients[mac].download, 1000000)
    ELSE KeyError

client_upload_value_fn(c, mac) ==
    IF mac \in DOMAIN c.api.known_clients
    THEN TrueDiv(c.api.known_clients[mac].upload, 1000000)
    ELSE KeyError

\* client_rx_value_fn without its test of mac in controller.api.clients
client_rx_value_fn_unguarded(c, mac) ==
    IF mac \in DOMAIN c.api.clients
    THEN TrueDiv(c.api.clients[mac].rx_rate, 1000000)
    ELSE KeyError

client_rx_value_fn(c, mac) ==
    IF mac \in DOMAIN c.api.clients
    THEN TrueDiv(c.api.clients[mac].rx_rate, 1000000)
    ELSE PyInt(0)

client_tx_value_fn(c, mac) ==
    IF mac \in DOMAIN c.api.clients
    THEN TrueDiv(c.api.clients[mac].tx_rate, 1000000)
    ELSE PyInt(0)

client_uptime_value_fn(c, mac) ==
    IF mac \in DOMAIN c.api.clients
    THEN Datetime(now - c.api.clients[mac].uptime)
    ELSE PyNone

\* controller.api.devices[mac], shared by the device accessors
HasDevice(c, mac) == mac \in DOMAIN c.api.devices

\* device_download_value_fn converting by 1024 * 1024 instead of 1000000
device_download_value_fn_mebi(c, mac) ==
    IF HasDevice(c, mac)
    THEN TrueDiv(c.api.devices[mac].download, 1048576) ELSE KeyError

device_download_value_fn(c, mac) ==
    IF HasDevice(c, mac)
    THEN TrueDiv(c.api.devices[mac].download, 1000000) ELSE KeyError

device_upload_value_fn(c, mac) ==
    IF HasDevice(c, mac)
    THEN TrueDiv(c.api.devices[mac].upload, 1000000) ELSE KeyError

device_rx_value_fn(c, mac) ==
    IF HasDevice(c, mac)
    THEN TrueDiv(c.api.devices[mac].rx_rate, 1000000) ELSE KeyError

device_tx_value_fn(c, mac) ==
    IF HasDevice(c, mac)
    THEN TrueDiv(c.api.devices[mac].tx_rate, 1000000) ELSE KeyError

device_cpu_value_fn(c, mac) ==
    IF HasDevice(c, mac) THEN PyInt(c.api.devices[mac].cpu) ELSE KeyError

device_memory_value_fn(c, mac) ==
    IF HasDevice(c, mac) THEN PyInt(c.api.devices[mac].memory) ELSE KeyError

\* device_uptime_value_fn adding the uptime to the clock reading
device_uptime_value_fn_added(c, mac) ==
    IF HasDevice(c, mac)
    THEN Datetime(now + c.api.devices[mac].uptime) ELSE KeyError

device_uptime_value_fn(c, mac) ==
    IF HasDevice(c, mac)
    THEN Datetime(now - c.api.devices[mac].uptime) ELSE KeyError

\* device_clients_value_fn reading the record of one fixed device of the
\* mapping instead of the record of mac
device_clients_value_fn_any(c, mac) ==
    IF HasDevice(c, mac)
    THEN PyInt(c.api.devices[CHOOSE m \in DOMAIN c.api.devices : TRUE].clients)
    ELSE KeyError

device_clients_value_fn(c, mac) ==
    IF HasDevice(c, mac) THEN PyInt(c.api.devices[mac].clients) ELSE KeyError

device_clients_2g_value_fn(c, mac) ==
    IF HasDevice(c, mac)
    THEN PyInt(c.api.devices[mac].clients_2ghz) ELSE KeyError

device_clients_5g_value_fn(c, mac) ==
    IF HasDevice(c, mac)
    THEN PyInt(c.api.devices[mac].clients_5ghz) ELSE KeyError

device_clients_6g_value_fn(c, mac) ==
    IF HasDevice(c, mac)
    THEN PyInt(c.api.devices[mac].clients_6ghz) ELSE KeyError

device_tx_utilization_2g_value_fn(c, mac) ==
    IF HasDevice(c, mac)
    THEN PyInt(c.api.devices[mac].tx_utilization_2ghz) ELSE KeyError

device_tx_utilization_5g_value_fn(c, mac) ==
    IF HasDevice(c, mac)
    THEN PyInt(c.api.devices[mac].tx_utilization_5ghz) ELSE KeyError

device_tx_utilization_6g_value_fn(c, mac) ==
    IF HasDevice(c, mac)
    THEN PyInt(c.api.devices[mac].tx_utilization_6ghz) ELSE KeyError

device_rx_utilization_2g_value_fn(c, mac) ==
    IF HasDevice(c, mac)
    THEN PyInt(c.api.devices[mac].rx_utilization_2ghz) ELSE KeyError

device_rx_utilization_5g_value_fn(c, mac) ==
    IF HasDevice(c, mac)
    THEN PyInt(c.api.devices[mac].rx_utilization_5ghz) ELSE KeyError

device_rx_utilization_6g_value_fn(c, mac) ==
    IF HasDevice(c, mac)
    THEN PyInt(c.api.devices[mac].rx_utilization_6ghz) ELSE KeyError

device_inter_utilization_2g_value_fn(c, mac) ==
    IF HasDevice(c, mac)
    THEN PyInt(c.api.devices[mac].interference_utilization_2ghz) ELSE KeyError

device_inter_utilization_5g_value_fn(c, mac) ==
    IF HasDevice(c, mac)
    THEN PyInt(c.api.devices[mac].interference_utilization_5ghz) ELSE KeyError

device_inter_utilization_6g_value_fn(c, mac) ==
    IF HasDevice(c, mac)
    THEN PyInt(c.api.devices[mac].interference_utilization_6ghz) ELSE KeyError

(***************************************************************************)
(* Entity descriptions (sensor.py lines 222-606).  A descriptor is named   *)
(* by its table and its key; each field of the tables is an operator over  *)
(* the key.                                                                *)
(***************************************************************************)
CLIENT_KEYS ==
    {DOWNLOAD_SENSOR, UPLOAD_SENSOR, RX_SENSOR, TX_SENSOR, UPTIME_SENSOR}

DEVICE_KEYS ==
    {DOWNLOAD_SENSOR, UPLOAD_SENSOR, RX_SENSOR, TX_SENSOR,
     CPU_USAGE_SENSOR, MEMORY_USAGE_SENSOR, UPTIME_SENSOR,
     CLIENTS_SENSOR, CLIENTS_2G_SENSOR, CLIENTS_5G_SENSOR, CLIENTS_6G_SENSOR,
     TX_UTILIZATION_2G_SENSOR, TX_UTILIZATION_5G_SENSOR,
     TX_UTILIZATION_6G_SENSOR,
     RX_UTILIZATION_2G_SENSOR, RX_UTILIZATION_5G_SENSOR,
     RX_UTILIZATION_6G_SENSOR,
     INTER_UTILIZATION_2G_SENSOR, INTER_UTILIZATION_5G_SENSOR,
     INTER_UTILIZATION_6G_SENSOR}

CLIENT_ENTITY_DESCRIPTIONS == {[table |-> "client", key |-> k] : k \in CLIENT_KEYS}

DEVICE_ENTITY_DESCRIPTIONS == {[table |-> "device", key |-> k] : k \in DEVICE_KEYS}

Descriptions == CLIENT_ENTITY_DESCRIPTIONS \cup DEVICE_ENTITY_DESCRIPTIONS

\* controller.is_client_allowed(mac): decided by the controller's client
\* filters, which this platform only reads
is_client_allowed(c, mac) == mac \in c.allowed_clients

\* controller.api.devices[mac].radio_enabled_<band>ghz
radio_enabled(c, mac, band) ==
    IF HasDevice(c, mac)
    THEN PyBool(CASE band = 2 -> c.api.devices[mac].radio_enabled_2ghz
                  [] band = 5 -> c.api.devices[mac].radio_enabled_5ghz
                  [] band = 6 -> c.api.devices[mac].radio_enabled_6ghz)
    ELSE KeyError

\* client_allowed_fn without the call of controller.is_client_allowed
client_allowed_fn_unfiltered(key, c, mac) ==
    /\ IF key = UPTIME_SENSOR THEN c.option_client_uptime_sensor
       ELSE c.option_client_bandwidth_sensors
    /\ c.option_track_clients

client_allowed_fn(key, c, mac) ==
    CASE key = DOWNLOAD_SENSOR ->
            c.option_client_bandwidth_sensors /\ c.option_track_clients
            /\ is_client_allowed(c, mac)
      [] key = UPLOAD_SENSOR ->
            c.option_client_bandwidth_sensors /\ c.option_track_clients
            /\ is_client_allowed(c, mac)
      [] key = RX_SENSOR ->
            c.option_client_bandwidth_sensors /\ c.option_track_clients
            /\ is_client_allowed(c, mac)
      [] key = TX_SENSOR ->
            c.option_client_bandwidth_sensors /\ c.option_track_clients
            /\ is_client_allowed(c, mac)
      [] key = UPTIME_SENSOR ->
            c.option_client_uptime_sensor /\ c.option_track_clients
            /\ is_client_allowed(c, mac)

device_allowed_fn(key, c, mac) ==
    CASE key = DOWNLOAD_SENSOR ->
            c.option_device_bandwidth_sensors /\ c.option_track_devices
      [] key = UPLOAD_SENSOR ->
            c.option_device_bandwidth_sensors /\ c.option_track_devices
      [] key = RX_SENSOR ->
            c.option_device_bandwidth_sensors /\ c.option_track_devices
      [] key = TX_SENSOR ->
            c.option_device_bandwidth_sensors /\ c.option_track_devices
      [] key = CPU_USAGE_SENSOR ->
            c.option_device_statistics_sensors /\ c.option_track_devices
      [] key = MEMORY_USAGE_SENSOR ->
            c.option_device_statistics_sensors /\ c.option_track_devices
      [] key = UPTIME_SENSOR ->
            c.option_device_statistics_sensors /\ c.option_track_devices
      [] key = CLIENTS_SENSOR ->
            c.option_device_clients_sensors /\ c.option_track_devices
      [] key = CLIENTS_2G_SENSOR ->
            c.option_device_clients_sensors /\ c.option_track_devices
      [] key = CLIENTS_5G_SENSOR ->
            c.option_device_clients_sensors /\ c.option_track_devices
      [] key = CLIENTS_6G_SENSOR ->
            c.option_device_clients_sensors /\ c.option_track_devices
      [] key = TX_UTILIZATION_2G_SENSOR ->
            c.option_device_radio_utilization_sensors /\ c.option_track_devices
      [] key = TX_UTILIZATION_5G_SENSOR ->
            c.option_device_radio_utilization_sensors /\ c.option_track_devices
      [] key = TX_UTILIZATION_6G_SENSOR ->
            c.option_device_radio_utilization_sensors /\ c.option_track_devices
      [] key = RX_UTILIZATION_2G_SENSOR ->
            c.option_device_radio_utilization_sensors /\ c.option_track_devices
      [] key = RX_UTILIZATION_5G_SENSOR ->
            c.option_device_radio_utilization_sensors /\ c.option_track_devices
      [] key = RX_UTILIZATION_6G_SENSOR ->
            c.option_device_radio_utilization_sensors /\ c.option_track_devices
      [] key = INTER_UTILIZATION_2G_SENSOR ->
            c.option_device_radio_utilization_sensors /\ c.option_track_devices
      [] key = INTER_UTILIZATION_5G_SENSOR ->
            c.option_device_radio_utilization_sensors /\ c.option_track_devices
      [] key = INTER_UTILIZATION_6G_SENSOR ->
            c.option_device_radio_utilization_sensors /\ c.option_track_devices

\* every client descriptor: supported_fn=lambda *_: True
client_supported_fn(key, c, mac) == PyBool(TRUE)

device_supported_fn(key, c, mac) ==
    CASE key = DOWNLOAD_SENSOR -> PyBool(TRUE)
      [] key = UPLOAD_SENSOR -> PyBool(TRUE)
      [] key = RX_SENSOR -> PyBool(TRUE)
      [] key = TX_SENSOR -> PyBool(TRUE)
      [] key = CPU_USAGE_SENSOR -> PyBool(TRUE)
      [] key = MEMORY_USAGE_SENSOR -> PyBool(TRUE)
      [] key = UPTIME_SENSOR -> PyBool(TRUE)
      [] key = CLIENTS_SENSOR -> PyBool(TRUE)
      [] key = CLIENTS_2G_SENSOR -> radio_enabled(c, mac, 2)
      [] key = CLIENTS_5G_SENSOR -> radio_enabled(c, mac, 5)
      [] key = CLIENTS_6G_SENSOR -> radio_enabled(c, mac, 6)
      [] key = TX_UTILIZATION_2G_SENSOR -> PyBool(TRUE)
      [] key = TX_UTILIZATION_5G_SENSOR -> radio_enabled(c, mac, 5)
      [] key = TX_UTILIZATION_6G_SENSOR -> radio_enabled(c, mac, 6)
      [] key = RX_UTILIZATION_2G_SENSOR -> radio_enabled(c, mac, 2)
      [] key = RX_UTILIZATION_5G_SENSOR -> radio_enabled(c, mac, 5)
      [] key = RX_UTILIZATION_6G_SENSOR -> radio_enabled(c, mac, 6)
      [] key = INTER_UTILIZATION_2G_SENSOR -> PyBool(TRUE)
      [] key = INTER_UTILIZATION_5G_SENSOR -> radio_enabled(c, mac, 5)
      [] key = INTER_UTILIZATION_6G_SENSOR -> radio_enabled(c, mac, 6)

\* available_fn also asking for the device to be in api.devices
device_available_fn_present(key, c, mac) == c.available /\ HasDevice(c, mac)

\* every descriptor of both tables:
\* available_fn=lambda controller, _: controller.available
client_available_fn(key, c, mac) == c.available

device_available_fn(key, c, mac) == c.available

client_value_fn(key, c, mac) ==
    CASE key = DOWNLOAD_SENSOR -> client_download_value_fn(c, mac)
      [] key = UPLOAD_SENSOR -> client_upload_value_fn(c, mac)
      [] key = RX_SENSOR -> client_rx_value_fn(c, mac)
      [] key = TX_SENSOR -> client_tx_value_fn(c, mac)
      [] key = UPTIME_SENSOR -> client_uptime_value_fn(c, mac)

device_value_fn(key, c, mac) ==
    CASE key = DOWNLOAD_SENSOR -> device_download_value_fn(c, mac)
      [] key = UPLOAD_SENSOR -> device_upload_value_fn(c, mac)
      [] key = RX_SENSOR -> device_rx_value_fn(c, mac)
      [] key = TX_SENSOR -> device_tx_value_fn(c, mac)
      [] key = CPU_USAGE_SENSOR -> device_cpu_value_fn(c, mac)
      [] key = MEMORY_USAGE_SENSOR -> device_memory_value_fn(c, mac)
      [] key = UPTIME_SENSOR -> device_uptime_value_fn(c, mac)
      [] key = CLIENTS_SENSOR -> device_clients_value_fn(c, mac)
      [] key = CLIENTS_2G_SENSOR -> device_clients_2g_value_fn(c, mac)
      [] key = CLIENTS_5G_SENSOR -> device_clients_5g_value_fn(c, mac)
      [] key = CLIENTS_6G_SENSOR -> device_clients_6g_value_fn(c, mac)
      [] key = TX_UTILIZATION_2G_SENSOR ->
            device_tx_utilization_2g_value_fn(c, mac)
      [] key = TX_UTILIZATION_5G_SENSOR ->
            device_tx_utilization_5g_value_fn(c, mac)
      [] key = TX_UTILIZATION_6G_SENSOR ->
            device_tx_utilization_6g_value_fn(c, mac)
      [] key = RX_UTILIZATION_2G_SENSOR ->
            device_rx_utilization_2g_value_fn(c, mac)
      [] key = RX_UTILIZATION_5G_SENSOR ->
            device_rx_utilization_5g_value_fn(c, mac)
      [] key = RX_UTILIZATION_6G_SENSOR ->
            device_rx_utilization_6g_value_fn(c, mac)
      [] key = INTER_UTILIZATION_2G_SENSOR ->
            device_inter_utilization_2g_value_fn(c, mac)
      [] key = INTER_UTILIZATION_5G_SENSOR ->
            device_inter_utilization_5g_value_fn(c, mac)
      [] key = INTER_UTILIZATION_6G_SENSOR ->
            device_inter_utilization_6g_value_fn(c, mac)

\* description.<field>(controller, mac) for a description of either table
allowed_fn(desc, c, mac) ==
    IF desc.table = "client" THEN client_allowed_fn(desc.key, c, mac)
    ELSE device_allowed_fn(desc.key, c, mac)

supported_fn(desc, c, mac) ==
    IF desc.table = "client" THEN client_supported_fn(desc.key, c, mac)
    ELSE device_supported_fn(desc.key, c, mac)

available_fn(desc, c, mac) ==
    IF desc.table = "client" THEN client_available_fn(desc.key, c, mac)
    ELSE device_available_fn(desc.key, c, mac)

value_fn(desc, c, mac) ==
    IF desc.table = "client" THEN client_value_fn(desc.key, c, mac)
    ELSE device_value_fn(desc.key, c, mac)

(***************************************************************************)
(* State.                                                                  *)
(*   controller  the controller object: api (the three mappings), the      *)
(*               options, available, and the client filter read by         *)
(*               is_client_allowed                                         *)
(*   now         the reading of dt_util.now()                              *)
(*   entity      the sensor entity (NoEntity before construction)          *)
(*   last_shown  the value most recently published by a refresh of the     *)
(*               entity, or the value read at its construction when no     *)
(*               refresh has published yet                                 *)
(*   lastOp      what the last operation did: its name, the value its      *)
(*               accessor call returned, whether it raised, whether it     *)
(*               called the parent update                                  *)
(*   last_read   what the entity's most recent accessor call had in front  *)
(*               of it: its MAC's record, the clock, the other records     *)
(*   subscribed  the signals items_added is connected to                   *)
(*   calls       the calls the last run of async_setup_entry or            *)
(*               items_added made on the controller, in order              *)
(*   setup_options  the tracking options as the last run of                 *)
(*               async_setup_entry read them                               *)
(*   probe       the last evaluation of the descriptions' predicates for a *)
(*               MAC                                                       *)
(***************************************************************************)
OptionNames ==
    {"option_track_clients", "option_track_devices",
     "option_client_bandwidth_sensors", "option_client_uptime_sensor",
     "option_device_bandwidth_sensors", "option_device_statistics_sensors",
     "option_device_clients_sensors",
     "option_device_radio_utilization_sensors"}

\* the controller objects over the given mappings, options and flags
Controllers(known, clients, devices, flags, avail, filters) ==
    [api : [known_clients : known, clients : clients, devices : devices],
     option_track_clients : flags,
     option_track_devices : flags,
     option_client_bandwidth_sensors : flags,
     option_client_uptime_sensor : flags,
     option_device_bandwidth_sensors : flags,
     option_device_statistics_sensors : flags,
     option_device_clients_sensors : flags,
     option_device_radio_utilization_sensors : flags,
     available : avail,
     allowed_clients : filters]

NoEntity ==
    [mac |-> "", entity_description |-> [table |-> "", key |-> ""],
     native_value |-> PyNone]

\* the two tracking options of controller c
TrackingOptions(c) ==
    [option_track_clients |-> c.option_track_clients,
     option_track_devices |-> c.option_track_devices]

NoSetup ==
    [option_track_clients |-> FALSE, option_track_devices |-> FALSE]

\* the mapping the accessor of description desc looks its MAC up in:
\* downloaded/uploaded of a client read api.known_clients, the other client
\* accessors api.clients, every device accessor api.devices
ReadMapping(desc, c) ==
    IF desc.table = "client"
    THEN IF desc.key \in {DOWNLOAD_SENSOR, UPLOAD_SENSOR}
         THEN c.api.known_clients
         ELSE c.api.clients
    ELSE c.api.devices

\* what that mapping holds for mac: <<record>>, or <<>> when mac is absent
Seen(desc, c, mac) ==
    IF mac \in DOMAIN ReadMapping(desc, c)
    THEN <<ReadMapping(desc, c)[mac]>>
    ELSE <<>>

\* what a call of the accessor had in front of it: the MAC's record, the
\* reading of the clock when the accessor takes one (the uptime accessors
\* call dt_util.now(), the others do not), and what the mapping held for
\* the other MACs
Read(desc, c, mac) ==
    [seen |-> Seen(desc, c, mac),
     clock |-> IF desc.key = UPTIME_SENSOR THEN now ELSE 0,
     rest |-> [m \in MACS \ {mac} |-> Seen(desc, c, m)]]

\* nothing read yet by an entity
NoRead == [seen |-> <<>>, clock |-> 0, rest |-> <<>>]

\* the record of an operation: what the accessor returned, whether it
\* raised, whether the parent update ran; for a refresh also what the
\* entity's previous accessor call had in front of it (`before`) and whether
\* the refresh directly follows a refresh, with no change of the controller
\* or of the clock in between (`again`)
Op(name, read, raised, published) ==
    [op |-> name, read |-> read, raised |-> raised, published |-> published,
     before |-> IF name = "async_update" THEN last_read ELSE NoRead,
     again |-> name = "async_update" /\ lastOp.op = "async_update"]

Idle(name) == Op(name, PyNone, FALSE, FALSE)

NoProbe == [mac |-> "", allowed |-> <<>>, supported |-> <<>>, available |-> <<>>]

(***************************************************************************)
(* OmadaSensorEntity (sensor.py lines 647-661).                            *)
(***************************************************************************)
\* the MACs the platform hands to the entity class for a description:
\* client descriptions are registered over api.clients (items_added) and
\* restored over api.known_clients, both only under option_track_clients;
\* device descriptions are registered over api.devices, only under
\* option_track_devices (sensor.py lines 615-642)
RegisteredMacs(desc, c) ==
    IF desc.table = "client"
    THEN IF c.option_track_clients
         THEN DOMAIN c.api.clients \cup DOMAIN c.api.known_clients
         ELSE {}
    ELSE IF c.option_track_devices THEN DOMAIN c.api.devices ELSE {}

\* __init__: the accessor is read once and its value cached; when the
\* accessor raises, the constructor raises and no entity comes to exist
Construct(mac, desc) ==
    /\ entity = NoEntity
    /\ mac \in RegisteredMacs(desc, controller)
    /\ LET value == value_fn(desc, controller, mac)
       IN  IF Raised(value)
           THEN /\ lastOp' = Op("__init__", value, TRUE, FALSE)
                /\ UNCHANGED <<entity, last_shown, last_read>>
           ELSE /\ entity' = [mac |-> mac, entity_description |-> desc,
                              native_value |-> value]
                /\ last_shown' = value
                /\ last_read' = Read(desc, controller, mac)
                /\ lastOp' = Op("__init__", value, FALSE, FALSE)
    /\ UNCHANGED <<controller, now, subscribed, calls, setup_options, probe>>

\* UpdatedEntity building a new entity state that loses the MAC binding
UpdatedEntity_rebinds(e, value) ==
    IF value # e.native_value
    THEN [NoEntity EXCEPT !.native_value = value,
                          !.entity_description = e.entity_description]
    ELSE e

\* UpdatedEntity with the cache write left out
UpdatedEntity_stale(e, value) == e

\* the entity after async_update read `value`: the cache is written when
\* value != self.native_value
UpdatedEntity(e, value) ==
    IF value # e.native_value THEN [e EXCEPT !.native_value = value] ELSE e

\* Publishes without the comparison: the parent update runs on every refresh
Publishes_always(e, value) == TRUE

\* Publishes with the parent update left out
Publishes_never(e, value) == FALSE

\* whether async_update calls super().async_update() after reading `value`
Publishes(e, value) == value # e.native_value

\* async_update catching the accessor's error and caching None instead
async_update_swallows ==
    /\ entity # NoEntity
    /\ LET value == value_fn(entity.entity_description, controller, entity.mac)
           shown == IF Raised(value) THEN PyNone ELSE value
       IN  /\ entity' = UpdatedEntity(entity, shown)
           /\ last_shown' = IF Publishes(entity, shown)
                            THEN entity'.native_value
                            ELSE last_shown
           /\ lastOp' = Op("async_update", value, FALSE,
                           Publishes(entity, shown))
    /\ last_read' = Read(entity.entity_description, controller, entity.mac)
    /\ UNCHANGED <<controller, now, subscribed, calls, setup_options, probe>>

\* async_update: the parent update publishes the entity's native value as
\* it is when the call is made
async_update ==
    /\ entity # NoEntity
    /\ LET value == value_fn(entity.entity_description, controller, entity.mac)
       IN  IF Raised(value)
           THEN /\ lastOp' = Op("async_update", value, TRUE, FALSE)
                /\ UNCHANGED <<entity, last_shown>>
           ELSE /\ entity' = UpdatedEntity(entity, value)
                /\ last_shown' = IF Publishes(entity, value)
                                 THEN entity'.native_value
                                 ELSE last_shown
                /\ lastOp' = Op("async_update", value, FALSE,
                                Publishes(entity, value))
    /\ last_read' = Read(entity.entity_description, controller, entity.mac)
    /\ UNCHANGED <<controller, now, subscribed, calls, setup_options, probe>>

(***************************************************************************)
(* The controller's polling, which this platform only reads: a record of   *)
(* a mapping is added or replaced, or removed; the clock advances.  The    *)
(* controller polls the clients it tracks (option_track_clients) and the   *)
(* devices it tracks (option_track_devices).                               *)
(***************************************************************************)
Put(f, mac, r) == [m \in DOMAIN f \cup {mac} |-> IF m = mac THEN r ELSE f[m]]

Drop(f, mac) == [m \in DOMAIN f \ {mac} |-> f[m]]

PollKnownClient(mac) ==
    /\ controller.option_track_clients
    /\ \/ \E r \in KnownClientRecords :
            controller' = [controller EXCEPT
                !.api.known_clients = Put(@, mac, r)]
       \/ /\ mac \in DOMAIN controller.api.known_clients
          /\ controller' = [controller EXCEPT
                !.api.known_clients = Drop(@, mac)]
    /\ controller' # controller
    /\ lastOp' = Idle("poll")
    /\ UNCHANGED <<now, entity, last_shown, subscribed, calls, setup_options,
                   probe,
                   last_read>>

PollClient(mac) ==
    /\ controller.option_track_clients
    /\ \/ \E r \in ClientRecords :
            controller' = [controller EXCEPT !.api.clients = Put(@, mac, r)]
       \/ /\ mac \in DOMAIN controller.api.clients
          /\ controller' = [controller EXCEPT !.api.clients = Drop(@, mac)]
    /\ controller' # controller
    /\ lastOp' = Idle("poll")
    /\ UNCHANGED <<now, entity, last_shown, subscribed, calls, setup_options,
                   probe,
                   last_read>>

PollDevice(mac) ==
    /\ controller.option_track_devices
    /\ \/ \E r \in DeviceRecords({{2, 5, 6}}) :
            controller' = [controller EXCEPT !.api.devices = Put(@, mac, r)]
       \/ /\ mac \in DOMAIN controller.api.devices
          /\ controller' = [controller EXCEPT !.api.devices = Drop(@, mac)]
    /\ controller' # controller
    /\ lastOp' = Idle("poll")
    /\ UNCHANGED <<now, entity, last_shown, subscribed, calls, setup_options,
                   probe,
                   last_read>>

Tick ==
    /\ now < MaxNow
    /\ now' = now + 1
    /\ lastOp' = Idle("poll")
    /\ UNCHANGED <<controller, entity, last_shown, subscribed, calls,
                   setup_options, probe,
                   last_read>>

(***************************************************************************)
(* The entity's life.  The controller tracks one family, clients or        *)
(* devices, and starts with nothing polled; every sensor group is on.      *)
(***************************************************************************)
EmptyMapping == [m \in {} |-> 0]

Init ==
    /\ controller \in Controllers({EmptyMapping}, {EmptyMapping},
                                  {EmptyMapping}, BOOLEAN, {TRUE}, {MACS})
    /\ controller.option_track_clients # controller.option_track_devices
    /\ controller.option_client_bandwidth_sensors
    /\ controller.option_client_uptime_sensor
    /\ controller.option_device_bandwidth_sensors
    /\ controller.option_device_statistics_sensors
    /\ controller.option_device_clients_sensors
    /\ controller.option_device_radio_utilization_sensors
    /\ now = 0
    /\ entity = NoEntity
    /\ last_shown = PyNone
    /\ lastOp = Idle("start")
    /\ subscribed = {}
    /\ calls = <<>>
    /\ setup_options = NoSetup
    /\ probe = NoProbe
    /\ last_read = NoRead

Next ==
    \/ \E mac \in MACS, desc \in Descriptions : Construct(mac, desc)
    \/ async_update
    \/ \E mac \in MACS : PollKnownClient(mac)
    \/ \E mac \in MACS : PollClient(mac)
    \/ \E mac \in MACS : PollDevice(mac)
    \/ Tick

Spec == Init /\ [][Next]_vars

(***************************************************************************)
(* async_setup_entry and items_added (sensor.py lines 609-644).  A call    *)
(* on the controller or the dispatcher is recorded as [fn, arg, table]:    *)
(* the function, the signal or mapping it is given, the description table. *)
(***************************************************************************)
Signals == {"signal_update", "signal_options_update"}

Call(fn, arg, table) == [fn |-> fn, arg |-> arg, table |-> table]

ConnectCall(signal) == Call("async_dispatcher_connect", signal, "")

RestoreCall ==
    Call("restore_cleanup_platform_entities", "clients", "client")

RegisterClients == Call("register_platform_entities", "clients", "client")

RegisterDevices == Call("register_platform_entities", "devices", "device")

\* items_added deciding on the options as async_setup_entry read them
items_added_captured(c) ==
    (IF setup_options.option_track_clients
     THEN <<RegisterClients>> ELSE <<>>)
    \o (IF setup_options.option_track_devices
        THEN <<RegisterDevices>> ELSE <<>>)

\* the calls of one run of items_added on controller c
items_added(c) ==
    (IF c.option_track_clients THEN <<RegisterClients>> ELSE <<>>)
    \o (IF c.option_track_devices THEN <<RegisterDevices>> ELSE <<>>)

\* setup_calls restoring the client entities whatever option_track_clients is
setup_calls_unconditional(c) ==
    <<ConnectCall("signal_update"), ConnectCall("signal_options_update"),
      RestoreCall>>

\* the calls of async_setup_entry before its own run of items_added
setup_calls(c) ==
    <<ConnectCall("signal_update"), ConnectCall("signal_options_update")>>
    \o (IF c.option_track_clients THEN <<RestoreCall>> ELSE <<>>)

async_setup_entry ==
    /\ subscribed = {}
    /\ subscribed' = Signals
    /\ calls' = setup_calls(controller) \o items_added(controller)
    /\ setup_options' = TrackingOptions(controller)
    /\ lastOp' = Idle("async_setup_entry")
    /\ UNCHANGED <<controller, now, entity, last_shown, probe, last_read>>

\* the dispatcher delivers a signal items_added is connected to
SignalFires(signal) ==
    /\ signal \in subscribed
    /\ calls' = items_added(controller)
    /\ lastOp' = Idle(signal)
    /\ UNCHANGED <<controller, now, entity, last_shown, subscribed,
                   setup_options, probe,
                   last_read>>

\* the entry is unloaded: the disconnect callbacks handed to
\* config_entry.async_on_unload run
Unload ==
    /\ subscribed # {}
    /\ subscribed' = {}
    /\ lastOp' = Idle("unload")
    /\ UNCHANGED <<controller, now, entity, last_shown, calls, setup_options,
                   probe,
                   last_read>>

\* the user changes an option of the config entry
SetOption(name, b) ==
    /\ controller[name] # b
    /\ controller' = [controller EXCEPT ![name] = b]
    /\ lastOp' = Idle("options")
    /\ UNCHANGED <<now, entity, last_shown, subscribed, calls, setup_options,
                   probe,
                   last_read>>

InitSetup ==
    /\ controller \in Controllers({EmptyMapping}, {EmptyMapping},
                                  {EmptyMapping}, BOOLEAN, {TRUE}, {MACS})
    /\ now = 0
    /\ entity = NoEntity
    /\ last_shown = PyNone
    /\ lastOp = Idle("start")
    /\ subscribed = {}
    /\ calls = <<>>
    /\ setup_options = NoSetup
    /\ probe = NoProbe
    /\ last_read = NoRead

NextSetup ==
    \/ async_setup_entry
    \/ \E signal \in Signals : SignalFires(signal)
    \/ Unload
    \/ \E name \in OptionNames, b \in BOOLEAN : SetOption(name, b)

SpecSetup == InitSetup /\ [][NextSetup]_vars

(***************************************************************************)
(* The predicates of the descriptions, evaluated for a MAC on any          *)
(* controller: any options, any client filter, either connection state,    *)
(* and, when devices are tracked, any devices with any radios enabled.     *)
(***************************************************************************)
EvaluatePredicates(mac) ==
    /\ probe' =
         [mac |-> mac,
          allowed |-> [desc \in Descriptions |->
                          allowed_fn(desc, controller, mac)],
          supported |-> [desc \in Descriptions |->
                          supported_fn(desc, controller, mac)],
          available |-> [desc \in Descriptions |->
                          available_fn(desc, controller, mac)]]
    /\ lastOp' = Idle("predicates")
    /\ UNCHANGED <<controller, now, entity, last_shown, subscribed, calls,
                   setup_options,
                   last_read>>

InitDesc ==
    /\ controller \in Controllers({EmptyMapping}, {EmptyMapping},
                                  Mappings({DeviceSample(0, r) :
                                                r \in RadioSets}),
                                  BOOLEAN, BOOLEAN, SUBSET MACS)
    /\ ~controller.option_track_devices =>
            controller.api.devices = EmptyMapping
    /\ now = 0
    /\ entity = NoEntity
    /\ last_shown = PyNone
    /\ lastOp = Idle("start")
    /\ subscribed = {}
    /\ calls = <<>>
    /\ setup_options = NoSetup
    /\ probe = NoProbe
    /\ last_read = NoRead

NextDesc == \E mac \in MACS : EvaluatePredicates(mac)

SpecDesc == InitDesc /\ [][NextDesc]_vars

(***************************************************************************)
(* Properties of the entity (specification Spec).                          *)
(***************************************************************************)
EntityOps == {"__init__", "async_update"}

\* v, a number in lowest terms, is raw / den: v.n * (den / v.d) = raw
IsQuotient(v, raw, den) ==
    /\ v.t = "num"
    /\ v.d > 0
    /\ den % v.d = 0
    /\ raw % (den \div v.d) = 0
    /\ raw \div (den \div v.d) = v.n

ClientDescription(key) == [table |-> "client", key |-> key]

DeviceDescription(key) == [table |-> "device", key |-> key]

\* C1: a refresh whose accessor returns reads the value the descriptor's
\* accessor gives for the entity's MAC on the current controller state; it
\* calls the parent update if and only if that value differs from the cached
\* native value, and then the cache holds the value read; when the value is
\* equal, nothing is published and the entity is left as it was.
C1_RefreshPublishesIffChanged ==
    [][(lastOp'.op = "async_update" /\ ~lastOp'.raised) =>
          /\ lastOp'.read =
                value_fn(entity.entity_description, controller, entity.mac)
          /\ lastOp'.published <=> (lastOp'.read # entity.native_value)
          /\ lastOp'.published => entity'.native_value = lastOp'.read
          /\ ~lastOp'.published =>
                (entity' = entity /\ last_shown' = last_shown)]_vars

\* a refresh found a new value and published it
C1_Witness ==
    /\ lastOp.op = "async_update"
    /\ lastOp.published
    /\ entity.native_value = lastOp.read

\* C2: whenever a value accessor is invoked, at construction or at refresh,
\* it returns a value: for a MAC missing from the mapping it reads it guards
\* the absence and gives a default instead of failing.
C2_AccessorNeverFails ==
    lastOp.op \in EntityOps => ~Raised(lastOp.read)

\* C3: the cached native value of the entity is the value most recently
\* published by a refresh, or the value read at construction when no
\* refresh has published yet.
C3_CacheIsLastShown ==
    entity # NoEntity => entity.native_value = last_shown

\* the uptime sensor of a client read None at construction, and a refresh
\* has since published a connection time
C3_Witness ==
    /\ entity.entity_description = ClientDescription(UPTIME_SENSOR)
    /\ lastOp.op = "async_update"
    /\ lastOp.published
    /\ last_shown = lastOp.read
    /\ last_shown.t = "datetime"

\* C4: for a MAC missing from api.clients the client RX and TX accessors
\* return 0 and the client uptime accessor returns None; for a MAC in
\* api.clients RX and TX return the record's rate divided by 1000000; none
\* of the three fails.
C4_ClientDefaults ==
    \A mac \in MACS :
        LET rx == client_rx_value_fn(controller, mac)
            tx == client_tx_value_fn(controller, mac)
            up == client_uptime_value_fn(controller, mac)
        IN  /\ ~Raised(rx) /\ ~Raised(tx) /\ ~Raised(up)
            /\ IF mac \in DOMAIN controller.api.clients
               THEN /\ IsQuotient(rx, controller.api.clients[mac].rx_rate,
                                  1000000)
                    /\ IsQuotient(tx, controller.api.clients[mac].tx_rate,
                                  1000000)
               ELSE /\ rx = PyInt(0)
                    /\ tx = PyInt(0)
                    /\ up = PyNone

\* the RX sensor of a client that is not connected was refreshed and read 0
C4_Witness ==
    /\ entity.entity_description = ClientDescription(RX_SENSOR)
    /\ entity.mac \notin DOMAIN controller.api.clients
    /\ lastOp.op = "async_update"
    /\ lastOp.read = PyInt(0)

\* C5: for every MAC present in the mapping read, the downloaded, uploaded,
\* RX and TX values are the record's raw counter divided by exactly
\* 1000000, and the CPU, memory, client-count and radio-utilization values
\* are the record's raw field unchanged.
C5_UnitConversionOnly ==
    \A mac \in MACS :
        /\ mac \in DOMAIN controller.api.known_clients =>
             LET r == controller.api.known_clients[mac]
                 v(key) == value_fn(ClientDescription(key), controller, mac)
             IN  /\ IsQuotient(v(DOWNLOAD_SENSOR), r.download, 1000000)
                 /\ IsQuotient(v(UPLOAD_SENSOR), r.upload, 1000000)
        /\ mac \in DOMAIN controller.api.clients =>
             LET r == controller.api.clients[mac]
                 v(key) == value_fn(ClientDescription(key), controller, mac)
             IN  /\ IsQuotient(v(RX_SENSOR), r.rx_rate, 1000000)
                 /\ IsQuotient(v(TX_SENSOR), r.tx_rate, 1000000)
        /\ mac \in DOMAIN controller.api.devices =>
             LET r == controller.api.devices[mac]
                 v(key) == value_fn(DeviceDescription(key), controller, mac)
             IN  /\ IsQuotient(v(DOWNLOAD_SENSOR), r.download, 1000000)
                 /\ IsQuotient(v(UPLOAD_SENSOR), r.upload, 1000000)
                 /\ IsQuotient(v(RX_SENSOR), r.rx_rate, 1000000)
                 /\ IsQuotient(v(TX_SENSOR), r.tx_rate, 1000000)
                 /\ v(CPU_USAGE_SENSOR) = PyInt(r.cpu)
                 /\ v(MEMORY_USAGE_SENSOR) = PyInt(r.memory)
                 /\ v(CLIENTS_SENSOR) = PyInt(r.clients)
                 /\ v(CLIENTS_2G_SENSOR) = PyInt(r.clients_2ghz)
                 /\ v(CLIENTS_5G_SENSOR) = PyInt(r.clients_5ghz)
                 /\ v(CLIENTS_6G_SENSOR) = PyInt(r.clients_6ghz)
                 /\ v(TX_UTILIZATION_2G_SENSOR) = PyInt(r.tx_utilization_2ghz)
                 /\ v(TX_UTILIZATION_5G_SENSOR) = PyInt(r.tx_utilization_5ghz)
                 /\ v(TX_UTILIZATION_6G_SENSOR) = PyInt(r.tx_utilization_6ghz)
                 /\ v(RX_UTILIZATION_2G_SENSOR) = PyInt(r.rx_utilization_2ghz)
                 /\ v(RX_UTILIZATION_5G_SENSOR) = PyInt(r.rx_utilization_5ghz)
                 /\ v(RX_UTILIZATION_6G_SENSOR) = PyInt(r.rx_utilization_6ghz)
                 /\ v(INTER_UTILIZATION_2G_SENSOR) =
                        PyInt(r.interference_utilization_2ghz)
                 /\ v(INTER_UTILIZATION_5G_SENSOR) =
                        PyInt(r.interference_utilization_5ghz)
                 /\ v(INTER_UTILIZATION_6G_SENSOR) =
                        PyInt(r.interference_utilization_6ghz)

\* the downloaded sensor of a device holds half a megabyte, read from a
\* counter of 500000 bytes
C5_Witness ==
    /\ entity.entity_description = DeviceDescription(DOWNLOAD_SENSOR)
    /\ entity.mac \in DOMAIN controller.api.devices
    /\ controller.api.devices[entity.mac].download = 500000
    /\ lastOp.op \in EntityOps
    /\ entity.native_value = [t |-> "num", n |-> 1, d |-> 2]

\* C10: a refresh changes at most the cached native value: the entity's
\* MAC and descriptor, the controller state and the clock are as before.
C10_RefreshFrame ==
    [][lastOp'.op = "async_update" =>
          /\ entity'.mac = entity.mac
          /\ entity'.entity_description = entity.entity_description
          /\ controller' = controller
          /\ now' = now]_vars

\* a refresh wrote a new value into the cache of a bound entity
C10_Witness ==
    /\ lastOp.op = "async_update"
    /\ lastOp.published
    /\ entity.mac \in MACS
    /\ entity.entity_description \in Descriptions

(***************************************************************************)
(* Properties of the platform setup (specification SpecSetup).             *)
(***************************************************************************)
Made(call) == \E i \in 1..Len(calls) : calls[i] = call

\* the operations that run items_added: the setup itself and each signal
ItemsAddedOps == {"async_setup_entry"} \cup Signals

\* C6: at setup and whenever the update signal or the options-update signal
\* fires, items_added asks for the registration of client sensors if and
\* only if option_track_clients is true at that moment, and of device
\* sensors if and only if option_track_devices is true at that moment,
\* whatever the options were at setup.
C6_RegistrationFollowsOptions ==
    [][lastOp'.op \in ItemsAddedOps =>
          /\ Made(RegisterClients)' <=> controller.option_track_clients
          /\ Made(RegisterDevices)' <=> controller.option_track_devices]_vars

\* device tracking was off at setup and turned on later: the next signal
\* asked for the registration of the device sensors
C6_Witness ==
    /\ lastOp.op \in Signals
    /\ ~setup_options.option_track_devices
    /\ controller.option_track_devices
    /\ Made(RegisterDevices)
    /\ ~Made(RegisterClients)

(***************************************************************************)
(* Properties of the descriptions' predicates (specification SpecDesc).    *)
(***************************************************************************)
BandwidthKeys == {DOWNLOAD_SENSOR, UPLOAD_SENSOR, RX_SENSOR, TX_SENSOR}

StatisticsKeys == {CPU_USAGE_SENSOR, MEMORY_USAGE_SENSOR, UPTIME_SENSOR}

ClientCountKeys ==
    {CLIENTS_SENSOR, CLIENTS_2G_SENSOR, CLIENTS_5G_SENSOR, CLIENTS_6G_SENSOR}

RadioUtilizationKeys ==
    {TX_UTILIZATION_2G_SENSOR, TX_UTILIZATION_5G_SENSOR,
     TX_UTILIZATION_6G_SENSOR,
     RX_UTILIZATION_2G_SENSOR, RX_UTILIZATION_5G_SENSOR,
     RX_UTILIZATION_6G_SENSOR,
     INTER_UTILIZATION_2G_SENSOR, INTER_UTILIZATION_5G_SENSOR,
     INTER_UTILIZATION_6G_SENSOR}

\* the option of the group a sensor belongs to
GroupOption(desc, c) ==
    IF desc.table = "client"
    THEN IF desc.key \in BandwidthKeys
         THEN c.option_client_bandwidth_sensors
         ELSE c.option_client_uptime_sensor
    ELSE CASE desc.key \in BandwidthKeys ->
                c.option_device_bandwidth_sensors
           [] desc.key \in StatisticsKeys ->
                c.option_device_statistics_sensors
           [] desc.key \in ClientCountKeys ->
                c.option_device_clients_sensors
           [] desc.key \in RadioUtilizationKeys ->
                c.option_device_radio_utilization_sensors

\* C7: a client sensor is allowed iff option_track_clients, the client
\* filter's verdict on the MAC and the option of its group all hold; a
\* device sensor is allowed iff option_track_devices and the option of its
\* group both hold.
C7_AllowedIsTrackingAndGroup ==
    probe # NoProbe =>
        \A desc \in Descriptions :
            probe.allowed[desc] <=>
                IF desc.table = "client"
                THEN /\ controller.option_track_clients
                     /\ probe.mac \in controller.allowed_clients
                     /\ GroupOption(desc, controller)
                ELSE /\ controller.option_track_devices
                     /\ GroupOption(desc, controller)

\* with client tracking on, the uptime sensor of a filtered-in client is
\* allowed while its bandwidth sensors are not, and no device sensor is
\* allowed with device tracking off
C7_Witness ==
    /\ probe # NoProbe
    /\ probe.allowed[ClientDescription(UPTIME_SENSOR)]
    /\ ~probe.allowed[ClientDescription(RX_SENSOR)]
    /\ ~controller.option_track_devices
    /\ controller.option_device_statistics_sensors
    /\ ~probe.allowed[DeviceDescription(CPU_USAGE_SENSOR)]

\* the band of a per-band device sensor
Band(key) ==
    CASE key \in {CLIENTS_2G_SENSOR, TX_UTILIZATION_2G_SENSOR,
                  RX_UTILIZATION_2G_SENSOR, INTER_UTILIZATION_2G_SENSOR} -> 2
      [] key \in {CLIENTS_5G_SENSOR, TX_UTILIZATION_5G_SENSOR,
                  RX_UTILIZATION_5G_SENSOR, INTER_UTILIZATION_5G_SENSOR} -> 5
      [] key \in {CLIENTS_6G_SENSOR, TX_UTILIZATION_6G_SENSOR,
                  RX_UTILIZATION_6G_SENSOR, INTER_UTILIZATION_6G_SENSOR} -> 6
      [] OTHER -> 0

RadioEnabled(r, band) ==
    CASE band = 2 -> r.radio_enabled_2ghz
      [] band = 5 -> r.radio_enabled_5ghz
      [] band = 6 -> r.radio_enabled_6ghz

\* C8: for a device in api.devices, every per-band sensor (client count,
\* TX, RX and interference utilization on 2.4, 5 and 6 GHz) is supported
\* iff the radio of its band is enabled on that device; every other sensor
\* is always supported.
C8_SupportedIsRadioOfBand ==
    (probe # NoProbe /\ probe.mac \in DOMAIN controller.api.devices) =>
        \A desc \in Descriptions :
            probe.supported[desc] =
                IF desc.table = "device" /\ Band(desc.key) # 0
                THEN PyBool(RadioEnabled(controller.api.devices[probe.mac],
                                         Band(desc.key)))
                ELSE PyBool(TRUE)

\* C9: the available predicate of every description, for every MAC, is the
\* controller's available flag, whether or not the MAC is in the
\* controller's mappings.
C9_AvailableIsControllerFlag ==
    probe # NoProbe =>
        \A desc \in Descriptions :
            probe.available[desc] = controller.available

\* the predicates were evaluated for a MAC that is in no mapping, on a
\* controller that is connected and holds another device
C9_Witness ==
    /\ probe # NoProbe
    /\ probe.mac \notin DOMAIN controller.api.devices
    /\ controller.api.devices # EmptyMapping
    /\ controller.available
    /\ probe.available[DeviceDescription(CPU_USAGE_SENSOR)]
    /\ probe.available[ClientDescription(UPTIME_SENSOR)]

\* the entity is an uptime sensor whose MAC has a record in the mapping its
\* accessor reads, and had one at the entity's previous accessor call
UptimeReadTwice ==
    /\ entity # NoEntity
    /\ entity.entity_description.key = UPTIME_SENSOR
    /\ last_read.seen # <<>>
    /\ Seen(entity.entity_description, controller, entity.mac) # <<>>

\* C11: the uptime value is the clock reading minus the record's uptime in
\* seconds, for a device in api.devices and for a client in api.clients; a
\* refresh of an uptime sensor, both of whose reads found a record,
\* publishes if and only if clock and reported uptime advanced by different
\* amounts since the entity's previous read, and a refresh after equal
\* advances leaves the cached value and the published value as they were.
C11_UptimeIsClockMinusUptime ==
    /\ [](\A mac \in MACS :
            /\ mac \in DOMAIN controller.api.devices =>
                  device_uptime_value_fn(controller, mac) =
                     Datetime(now - controller.api.devices[mac].uptime)
            /\ mac \in DOMAIN controller.api.clients =>
                  client_uptime_value_fn(controller, mac) =
                     Datetime(now - controller.api.clients[mac].uptime))
    /\ [][(lastOp'.op = "async_update" /\ UptimeReadTwice) =>
             LET was == last_read.seen[1].uptime
                 is == Seen(entity.entity_description, controller,
                            entity.mac)[1].uptime
             IN  /\ lastOp'.published <=>
                        (now - last_read.clock # is - was)
                 /\ lastOp'.published =>
                        /\ entity'.native_value = Datetime(now - is)
                        /\ last_shown' = Datetime(now - is)
                 /\ ~lastOp'.published =>
                        /\ entity'.native_value = entity.native_value
                        /\ last_shown' = last_shown]_vars

\* a device uptime sensor was refreshed after the clock and the device's
\* uptime had both advanced by one second, and nothing was published
C11_Witness ==
    /\ lastOp.op = "async_update"
    /\ entity.entity_description = DeviceDescription(UPTIME_SENSOR)
    /\ lastOp.before.seen # <<>>
    /\ last_read.seen # <<>>
    /\ last_read.clock = lastOp.before.clock + 1
    /\ last_read.seen[1].uptime = lastOp.before.seen[1].uptime + 1
    /\ ~lastOp.published
    /\ entity.native_value = Datetime(now - last_read.seen[1].uptime)

\* the accessor of the entity's description indexes its mapping with no
\* membership test: every device accessor, and downloaded/uploaded of a
\* client
Unguarded(desc) ==
    \/ desc.table = "device"
    \/ desc.key \in {DOWNLOAD_SENSOR, UPLOAD_SENSOR}

\* C12: a refresh whose accessor fails ends with that error, leaves the
\* cached native value (and the whole entity) exactly as it was and
\* publishes nothing; the accessor fails in particular for a device sensor
\* whose MAC is not in api.devices and for a client downloaded/uploaded
\* sensor whose MAC is not in api.known_clients.
C12_FailedRefreshKeepsCache ==
    [][lastOp'.op = "async_update" =>
          LET desc == entity.entity_description
              value == value_fn(desc, controller, entity.mac)
          IN  /\ (Unguarded(desc) /\ Seen(desc, controller, entity.mac) = <<>>)
                    => Raised(value)
              /\ Raised(value) =>
                    /\ lastOp'.raised
                    /\ lastOp'.read = value
                    /\ ~lastOp'.published
                    /\ entity' = entity
                    /\ last_shown' = last_shown]_vars

\* a device sensor holding a number was refreshed after its MAC left
\* api.devices: the refresh raised and the number is still cached
C12_Witness ==
    /\ lastOp.op = "async_update"
    /\ lastOp.raised
    /\ lastOp.read = KeyError
    /\ entity.entity_description.table = "device"
    /\ entity.mac \notin DOMAIN controller.api.devices
    /\ entity.native_value.t = "num"
    /\ last_shown = entity.native_value

\* every call a made by the last operation comes before every call b
CalledBefore(a, b) ==
    \A i, j \in 1..Len(calls) : (calls[i] = a /\ calls[j] = b) => i < j

\* C13: in async_setup_entry the restore/cleanup of the known client
\* entities is called if and only if option_track_clients is true, once,
\* after both signals are connected and before every registration call of
\* items_added; no restore is ever called for devices; with
\* option_track_clients false the setup calls neither the client restore
\* nor the client registration.
C13_RestoreOrder ==
    lastOp.op = "async_setup_entry" =>
        /\ subscribed = Signals
        /\ Made(RestoreCall) <=> controller.option_track_clients
        /\ \A signal \in Signals :
              /\ Made(ConnectCall(signal))
              /\ CalledBefore(ConnectCall(signal), RestoreCall)
        /\ CalledBefore(RestoreCall, RegisterClients)
        /\ CalledBefore(RestoreCall, RegisterDevices)
        /\ \A i, j \in 1..Len(calls) :
              calls[i].fn = "restore_cleanup_platform_entities" =>
                 /\ calls[i] = RestoreCall
                 /\ calls[j].fn = "restore_cleanup_platform_entities" => i = j
        /\ ~controller.option_track_clients =>
              (~Made(RestoreCall) /\ ~Made(RegisterClients))

\* a setup with both tracking options on: two connections, then the client
\* restore, then the registration of clients and of devices
C13_Witness ==
    /\ lastOp.op = "async_setup_entry"
    /\ controller.option_track_clients
    /\ controller.option_track_devices
    /\ Len(calls) = 5
    /\ calls[3] = RestoreCall
    /\ calls[4] = RegisterClients
    /\ calls[5] = RegisterDevices

\* C14: for a sensor other than uptime, a refresh that directly follows a
\* refresh, with no change of the controller in between, publishes nothing
\* and leaves the entity and the published value as they were, whether the
\* first refresh published, found the value unchanged or raised.
C14_RefreshIdempotent ==
    [][(/\ lastOp.op = "async_update"
        /\ lastOp'.op = "async_update"
        /\ entity.entity_description.key # UPTIME_SENSOR) =>
          /\ ~lastOp'.published
          /\ lastOp'.read = lastOp.read
          /\ entity' = entity
          /\ last_shown' = last_shown]_vars

\* a sensor other than uptime was refreshed twice in a row: the second
\* refresh read the cached number again and published nothing
C14_Witness ==
    /\ lastOp.op = "async_update"
    /\ lastOp.again
    /\ ~lastOp.raised
    /\ ~lastOp.published
    /\ entity.entity_description.key # UPTIME_SENSOR
    /\ entity.native_value = lastOp.read
    /\ entity.native_value.t = "num"
    /\ entity.native_value.n > 0
    /\ lastOp.before = last_read
    /\ last_read.seen # <<>>

\* C15: the value of a sensor bound to a MAC depends only on what the
\* mapping its accessor reads holds for that MAC (and, for uptime, on the
\* clock): across every change of the controller that leaves the MAC's
\* record and presence in that mapping as they were, at equal clock
\* readings, every description yields the same value for the MAC; and a
\* refresh that finds the record and presence of its own MAC as the
\* entity's previous accessor call found them (for uptime also the clock)
\* publishes nothing and leaves the entity as it was, whatever happened to
\* the other records.
C15_ValueDependsOnOwnRecord ==
    /\ [][LET desc == entity.entity_description
               mac == entity.mac
           IN  (/\ entity # NoEntity
                /\ Seen(desc, controller, mac)' = Seen(desc, controller, mac)
                /\ now' = now) =>
                  value_fn(desc, controller, mac)' =
                     value_fn(desc, controller, mac)]_vars
    /\ [][(/\ lastOp'.op = "async_update"
           /\ last_read.seen =
                 Seen(entity.entity_description, controller, entity.mac)
           /\ last_read.clock =
                 Read(entity.entity_description, controller,
                      entity.mac).clock) =>
             /\ ~lastOp'.published
             /\ entity' = entity
             /\ last_shown' = last_shown]_vars

\* a device sensor of m1 was refreshed after the record of m2 in
\* api.devices had changed since the entity's previous read and the record
\* of m1 had not: nothing was published
C15_Witness ==
    /\ lastOp.op = "async_update"
    /\ ~lastOp.raised
    /\ ~lastOp.published
    /\ entity.entity_description = DeviceDescription(CLIENTS_SENSOR)
    /\ entity.mac = "m1"
    /\ last_read.seen # <<>>
    /\ lastOp.before.seen = last_read.seen
    /\ lastOp.before.rest["m2"] # <<>>
    /\ last_read.rest["m2"] # <<>>
    /\ lastOp.before.rest["m2"] # last_read.rest["m2"]

====
